---- MODULE Spec2Model ----
(***************************************************************************)
(* A model of uasset_utils: the asset-registry codec                       *)
(* (src/uasset_utils/src/asset_registry.rs), the archive-path mapping      *)
(* (src/uasset_utils/src/paths.rs) and the registry mutators get_name and  *)
(* populate.                                                               *)
(*                                                                         *)
(* Two specifications share the module:                                    *)
(*   Spec       the registry as a state machine under get_name / populate  *)
(*   SpecCodec  the read / write functions applied to sampled values and   *)
(*              byte streams                                               *)
(*                                                                         *)
(* Representation of machine integers: TLC's integers are 32-bit signed,   *)
(* so a u32 is kept as its two 16-bit halves [hi, lo] and a u64 as four    *)
(* halves; every shift, mask and cast of the source is done on the halves  *)
(* at full width.                                                          *)
(***************************************************************************)
EXTENDS Integers, Sequences, FiniteSets, TLC

VARIABLES reg, last, pre, ncalls, kind, val, bytes, out, pc

vars == <<reg, last, pre, ncalls, kind, val, bytes, out, pc>>

(***************************************************************************)
(* Option<T>, Result<T>                                                    *)
(***************************************************************************)
None == <<>>
Some(v) == <<v>>
IsSome(o) == o # <<>>
Unwrap(o) == o[1]

(***************************************************************************)
(* u32 as two 16-bit halves                                                *)
(***************************************************************************)
Half == 65536

\* `n as u32` for a machine-size natural n held in a TLC integer
u32(n) == [hi |-> (n \div Half) % Half, lo |-> n % Half]

\* index.0 as usize < len, for a collection whose length fits a TLC integer
InBounds(w, len) == w.hi = 0 /\ w.lo < len

\* index.0 as usize, used only under InBounds
AsUsize(w) == w.lo

(***************************************************************************)
(* Strings of the mutator side (names, paths) are TLA+ strings.            *)
(***************************************************************************)
CharAt(s, i) == SubSeq(s, i, i)

UpperAZ == "ABCDEFGHIJKLMNOPQRSTUVWXYZ"

to_ascii_lowercase_char(c) ==
    IF \E i \in 1..Len(UpperAZ) : CharAt(UpperAZ, i) = c
    THEN CharAt("abcdefghijklmnopqrstuvwxyz", CHOOSE i \in 1..Len(UpperAZ) : CharAt(UpperAZ, i) = c)
    ELSE c

RECURSIVE to_ascii_lowercase_str(_)
to_ascii_lowercase_str(s) ==
    IF s = "" THEN ""
    ELSE to_ascii_lowercase_char(CharAt(s, 1)) \o to_ascii_lowercase_str(SubSeq(s, 2, Len(s)))

\* unicase::eq_ascii: ASCII case-insensitive equality
eq_ascii(a, b) == to_ascii_lowercase_str(a) = to_ascii_lowercase_str(b)

\* strip_suffix that tests for the suffix and forgets to remove it
strip_suffix_kept(s, suffix) ==
    IF Len(s) >= Len(suffix) /\ SubSeq(s, Len(s) - Len(suffix) + 1, Len(s)) = suffix
    THEN Some(s)
    ELSE None

\* str::strip_suffix
strip_suffix(s, suffix) ==
    IF Len(s) >= Len(suffix) /\ SubSeq(s, Len(s) - Len(suffix) + 1, Len(s)) = suffix
    THEN Some(SubSeq(s, 1, Len(s) - Len(suffix)))
    ELSE None

(***************************************************************************)
(* Utf8UnixPath: components, join, parent                                  *)
(***************************************************************************)
\* the "/"-separated segments of s, empty segments included
RECURSIVE Segments(_, _)
Segments(s, acc) ==
    IF s = "" THEN <<acc>>
    ELSE IF CharAt(s, 1) = "/" THEN <<acc>> \o Segments(SubSeq(s, 2, Len(s)), "")
    ELSE Segments(SubSeq(s, 2, Len(s)), acc \o CharAt(s, 1))

Component(seg) ==
    IF seg = ".." THEN [kind |-> "ParentDir", str |-> seg]
    ELSE [kind |-> "Normal", str |-> seg]

\* Utf8UnixPath::components: a leading "/" is RootDir, a leading "." is
\* CurDir, empty and inner "." segments are skipped
components(s) ==
    LET segs == Segments(s, "")
        root == IF s # "" /\ CharAt(s, 1) = "/"
                THEN <<[kind |-> "RootDir", str |-> "/"]>> ELSE <<>>
        cur  == IF s # "" /\ segs[1] = "."
                THEN <<[kind |-> "CurDir", str |-> "."]>> ELSE <<>>
        rest == SelectSeq(segs, LAMBDA g : g # "" /\ g # ".")
    IN root \o cur \o [i \in 1..Len(rest) |-> Component(rest[i])]

\* Utf8UnixComponents::as_path of the components not yet consumed
RECURSIVE as_path(_)
as_path(cs) ==
    IF cs = <<>> THEN ""
    ELSE IF Len(cs) = 1 THEN cs[1].str
    ELSE IF cs[1].kind = "RootDir" THEN "/" \o as_path(Tail(cs))
    ELSE cs[1].str \o "/" \o as_path(Tail(cs))

\* Utf8UnixPath::join with a relative second path
join(base, rel) ==
    IF rel = "" THEN base
    ELSE IF base # "" /\ CharAt(base, Len(base)) # "/" THEN base \o "/" \o rel
    ELSE base \o rel

\* Utf8UnixPath::parent
parent(p) ==
    LET cs == components(p)
    IN IF cs = <<>> \/ cs[Len(cs)].kind = "RootDir" THEN None
       ELSE Some(as_path(SubSeq(cs, 1, Len(cs) - 1)))

IsNormal(cs, i) == i <= Len(cs) /\ cs[i].kind = "Normal"

\* the loop over the components that follow "Engine/Plugins"
RECURSIVE plugin_loop(_, _, _)
plugin_loop(cs, i, lastc) ==
    IF IsNormal(cs, i) /\ eq_ascii(cs[i].str, "Content")
    THEN IF IsSome(lastc)
         THEN Some(join(join("/", Unwrap(lastc)), as_path(SubSeq(cs, i + 1, Len(cs)))))
         ELSE None
    ELSE IF IsNormal(cs, i) THEN plugin_loop(cs, i + 1, Some(cs[i].str))
    ELSE None

pak_path_to_game_path(pak_path) ==
    LET cs == components(pak_path)
    IN IF IsNormal(cs, 1) /\ eq_ascii(cs[1].str, "Engine")
       THEN IF IsNormal(cs, 2) /\ eq_ascii(cs[2].str, "Content")
            THEN Some(join("/Engine", as_path(SubSeq(cs, 3, Len(cs)))))
            ELSE IF IsNormal(cs, 2) /\ eq_ascii(cs[2].str, "Plugins")
            THEN plugin_loop(cs, 3, None)
            ELSE None
       ELSE IF IsNormal(cs, 1)
       THEN IF IsNormal(cs, 2) /\ eq_ascii(cs[2].str, "Content")
            THEN Some(join("/Game", as_path(SubSeq(cs, 3, Len(cs)))))
            ELSE None
       ELSE None

(***************************************************************************)
(* The records of the registry                                             *)
(***************************************************************************)
\* NameIndexFlagged(pub u32, pub Option<u32>)
NameIndexFlagged(index, instance) == [index |-> index, instance |-> instance]

\* MapHandle { has_numberless_keys, num, pair_begin }
MapHandle(has_numberless_keys, num, pair_begin) ==
    [has_numberless_keys |-> has_numberless_keys, num |-> num, pair_begin |-> pair_begin]

\* struct AssetData
AssetData(object_path, package_path, asset_class, package_name, asset_name, tags, bundle_count, chunk_ids, flags) ==
    [object_path |-> object_path, package_path |-> package_path,
     asset_class |-> asset_class, package_name |-> package_name,
     asset_name |-> asset_name, tags |-> tags, bundle_count |-> bundle_count,
     chunk_ids |-> chunk_ids, flags |-> flags]

\* struct Store
Store(pair_count, texts, nbl_names, names, nbl_export_paths, export_paths, ansi_strings, wide_strings, pairs) ==
    [pair_count |-> pair_count, texts |-> texts, nbl_names |-> nbl_names,
     names |-> names, nbl_export_paths |-> nbl_export_paths,
     export_paths |-> export_paths, ansi_strings |-> ansi_strings,
     wide_strings |-> wide_strings, pairs |-> pairs]

\* struct Dependencies; dependencies_size is a u64 (four halves)
Dependencies(dependencies_size, dependencies, package_data_buffer_size) ==
    [dependencies_size |-> dependencies_size, dependencies |-> dependencies,
     package_data_buffer_size |-> package_data_buffer_size]

\* struct AssetRegistry
AssetRegistry(version, version_int, hash_version, names, store, asset_data, dependencies) ==
    [version |-> version, version_int |-> version_int, hash_version |-> hash_version,
     names |-> names, store |-> store, asset_data |-> asset_data,
     dependencies |-> dependencies]

(***************************************************************************)
(* Names: an IndexSet<String>, kept as the sequence of its entries in      *)
(* insertion order                                                         *)
(***************************************************************************)
\* IndexSet::get_index_of (0-based)
get_index_of(names, name) ==
    IF \E i \in 1..Len(names) : names[i] = name
    THEN Some((CHOOSE i \in 1..Len(names) : names[i] = name /\
                   \A j \in 1..(i - 1) : names[j] # name) - 1)
    ELSE None

\* an insert that puts the new entry first, shifting every index
IndexSet_insert_first(names, name) ==
    IF \E i \in 1..Len(names) : names[i] = name THEN names ELSE <<name>> \o names

\* IndexSet::insert: appends unless an equal entry is present
IndexSet_insert(names, name) ==
    IF \E i \in 1..Len(names) : names[i] = name THEN names ELSE Append(names, name)

\* impl Index<NameIndexFlagged> for Names; the caller checks InBounds first,
\* as the slice index panics otherwise
Names_index(names, index) == names[AsUsize(index.index) + 1]

\* a get_name that appends without looking the string up
get_name_unchecked(names, name) ==
    [names |-> Append(names, name), ret |-> NameIndexFlagged(u32(Len(names)), None)]

\* a get_name that returns the length of the table before the call as the
\* index, with the instance number 0
get_name_numbered(names, name) ==
    [names |-> IndexSet_insert(names, name),
     ret |-> NameIndexFlagged(u32(Len(names)), Some(u32(0)))]

\* AssetRegistry::get_name, as (names after the call, returned index)
get_name(names, name) ==
    LET i == get_index_of(names, name)
    IN IF IsSome(i)
       THEN [names |-> names, ret |-> NameIndexFlagged(u32(Unwrap(i)), None)]
       ELSE LET inserted == IndexSet_insert(names, name)
            IN [names |-> inserted,
                ret |-> NameIndexFlagged(u32(Len(inserted) - 1), None)]

(***************************************************************************)
(* The parsed asset handed to populate (unreal_asset::Asset): exports with *)
(* outer_index, object_flags, object_name, class_index, and the imports a  *)
(* negative PackageIndex refers to                                         *)
(***************************************************************************)
Export(outer_index, object_flags, object_name, class_index) ==
    [outer_index |-> outer_index, object_flags |-> object_flags,
     object_name |-> object_name, class_index |-> class_index]

\* Asset::get_import: index -k names the k-th import
get_import(asset, index) ==
    IF index < 0 /\ -index <= Len(asset.imports)
    THEN Some(asset.imports[-index]) ELSE None

\* a root-export search that ignores the object flags
get_root_export_any_flags(asset) ==
    LET ok(i) == asset.exports[i].outer_index = 0
    IN IF \E i \in 1..Len(asset.exports) : ok(i)
       THEN Some(CHOOSE i \in 1..Len(asset.exports) :
                     ok(i) /\ \A j \in 1..(i - 1) : ~ok(j))
       ELSE None

\* asset_registry::get_root_export, the function populate calls: the
\* position of the first export with a null outer and RF_PUBLIC set
get_root_export(asset) ==
    LET ok(i) == /\ asset.exports[i].outer_index = 0
                 /\ "RF_PUBLIC" \in asset.exports[i].object_flags
    IN IF \E i \in 1..Len(asset.exports) : ok(i)
       THEN Some(CHOOSE i \in 1..Len(asset.exports) :
                     ok(i) /\ \A j \in 1..(i - 1) : ~ok(j))
       ELSE None

\* crate::get_root_export of lib.rs, which populate does not call: the
\* first export with a null outer, whatever its flags
lib_get_root_export(asset) ==
    LET ok(i) == asset.exports[i].outer_index = 0
    IN IF \E i \in 1..Len(asset.exports) : ok(i)
       THEN Some(CHOOSE i \in 1..Len(asset.exports) :
                     ok(i) /\ \A j \in 1..(i - 1) : ~ok(j))
       ELSE None

\* a duplicate check that compares each record's package name instead of
\* its object path
find_existing_by_package(names, asset_data, i, object_path_str) ==
    IF \E k \in i..Len(asset_data) :
           /\ InBounds(asset_data[k].package_name.index, Len(names))
           /\ Names_index(names, asset_data[k].package_name) = object_path_str
    THEN "found" ELSE "absent"

\* the scan of populate's duplicate check: Iterator::find over asset_data,
\* indexing the name table with each record's object_path in turn
RECURSIVE find_existing(_, _, _, _)
find_existing(names, asset_data, i, object_path_str) ==
    IF i > Len(asset_data) THEN "absent"
    ELSE IF ~InBounds(asset_data[i].object_path.index, Len(names)) THEN "panic"
    ELSE IF Names_index(names, asset_data[i].object_path) = object_path_str THEN "found"
    ELSE find_existing(names, asset_data, i + 1, object_path_str)

\* a tag map of no pairs with its flag clear (the 64-bit word 0)
populate_tags_clear == MapHandle(FALSE, 0, u32(0))

\* the tag map populate gives each record it appends
populate_tags == MapHandle(TRUE, 0, u32(0))

Ok == "Ok"
Err(context) == "Err: " \o context
Panic == "panic"

\* the part of populate after the duplicate check: interning and appending
populate_append(r, asset_name_str, package_path_str, package_name_str, object_path_str, asset_class_str) ==
    LET n1 == get_name(r.names, object_path_str)
        n2 == get_name(n1.names, package_path_str)
        n3 == get_name(n2.names, asset_class_str)
        n4 == get_name(n3.names, package_name_str)
        n5 == get_name(n4.names, asset_name_str)
        new == AssetData(n1.ret, n2.ret, n3.ret, n4.ret, n5.ret,
                         populate_tags, u32(0), <<>>, u32(0))
        s1 == strip_suffix(asset_name_str, "_C")
        s2 == strip_suffix(object_path_str, "_C")
        s3 == strip_suffix(asset_class_str, "GeneratedClass")
        m1 == get_name(n5.names, Unwrap(s2))
        m2 == get_name(m1.names, Unwrap(s3))
        m3 == get_name(m2.names, Unwrap(s1))
        new2 == AssetData(m1.ret, n2.ret, m2.ret, n4.ret, m3.ret,
                          populate_tags, u32(0), <<>>, u32(0))
    IN IF IsSome(s1) /\ IsSome(s2) /\ IsSome(s3)
       THEN [r EXCEPT !.names = m3.names,
                      !.asset_data = Append(Append(r.asset_data, new), new2)]
       ELSE [r EXCEPT !.names = n5.names,
                      !.asset_data = Append(r.asset_data, new)]

\* a populate that interns the path before it maps it to a game path
populate_interning_first(r, path, asset) ==
    [reg |-> [r EXCEPT !.names = get_name(r.names, path).names],
     ret |-> IF IsSome(pak_path_to_game_path(path)) THEN Ok ELSE Err("failed to get game path")]

\* AssetRegistry::populate, as (registry after the call, result)
populate(r, path, asset) ==
    LET game_path == pak_path_to_game_path(path)
        root == get_root_export(asset)
        base == asset.exports[Unwrap(root)]
        asset_name_str == base.object_name
        package_path == parent(Unwrap(game_path))
        package_name_str == Unwrap(game_path)
        object_path_str == Unwrap(game_path) \o "." \o asset_name_str
        import == get_import(asset, base.class_index)
        asset_class_str == Unwrap(import).object_name
        existing == find_existing(r.names, r.asset_data, 1, object_path_str)
    IN IF ~IsSome(game_path) THEN [reg |-> r, ret |-> Err("failed to get game path")]
       ELSE IF ~IsSome(root) THEN [reg |-> r, ret |-> Err("no root export")]
       ELSE IF ~IsSome(package_path) THEN [reg |-> r, ret |-> Err("no path parent")]
       ELSE IF ~IsSome(import) THEN [reg |-> r, ret |-> Err("bad import ref")]
       ELSE IF existing = "panic" THEN [reg |-> r, ret |-> Panic]
       ELSE IF existing = "found" THEN [reg |-> r, ret |-> Ok]
       ELSE [reg |-> populate_append(r, asset_name_str, Unwrap(package_path),
                                     package_name_str, object_path_str, asset_class_str),
             ret |-> Ok]

(***************************************************************************)
(* Spec: the registry under get_name and populate                          *)
(***************************************************************************)
\* the number of get_name / populate calls made on one registry
MaxCalls == 2

EmptyStore == Store(u32(0), <<>>, <<>>, <<>>, <<>>, <<>>, <<>>, <<>>, <<>>)
EmptyDependencies == Dependencies(<<0, 0, 0, 0>>, <<>>, u32(0))
ZeroGuid == [i \in 1..16 |-> 0]

Plain(i) == NameIndexFlagged(u32(i), None)

\* a registry as AssetRegistry::read or its owner can leave it
RegistryOf(names, asset_data) ==
    AssetRegistry(ZeroGuid, u32(1), <<1, 0, 0, 0>>, names, EmptyStore,
                  asset_data, EmptyDependencies)

InitialRegistries ==
    { RegistryOf(<<>>, <<>>),
      \* one texture already catalogued, its asset name carrying an instance number
      RegistryOf(<<"/Engine/Tex.Tex", "/Engine", "Texture2D", "/Engine/Tex", "Tex">>,
                 <<AssetData(Plain(0), Plain(1), Plain(2), Plain(3),
                             NameIndexFlagged(u32(4), Some(u32(0))),
                             MapHandle(FALSE, 0, u32(0)), u32(0), <<u32(0)>>, u32(0))>>),
      \* the stripped Blueprint strings interned beforehand
      RegistryOf(<<"BP_Foo", "/Game/BP_Foo.BP_Foo">>, <<>>),
      \* a decoded record whose object_path index lies outside the name table
      \* (read does not validate indices)
      RegistryOf(<<"Tex">>,
                 <<AssetData(Plain(7), Plain(0), Plain(0), Plain(0), Plain(0),
                             MapHandle(FALSE, 0, u32(0)), u32(0), <<>>, u32(0))>>) }

Imports == <<[object_name |-> "BP_Foo_GeneratedClass"], [object_name |-> "Texture2D"]>>

Asset(exports) == [exports |-> exports, imports |-> Imports]

Public == {"RF_PUBLIC"}
NotPublic == {"RF_TRANSACTIONAL"}

Assets ==
    { Asset(<<Export(0, Public, "BP_Foo_C", -1)>>),
      Asset(<<Export(0, Public, "BP_Foo", -2)>>),
      Asset(<<Export(0, Public, "Tex", -2)>>),
      \* the first null-outer export is not public
      Asset(<<Export(0, NotPublic, "Priv", -2), Export(0, Public, "Tex", -2)>>),
      \* the first export is nested in the second
      Asset(<<Export(2, Public, "Sub", -2), Export(0, Public, "Tex", -2)>>),
      \* the only null-outer export is not public
      Asset(<<Export(0, NotPublic, "Priv", -2)>>),
      \* no export has a null outer
      Asset(<<Export(2, Public, "Sub", -2), Export(1, Public, "Sub2", -2)>>),
      \* class references that resolve to no import
      Asset(<<Export(0, Public, "Tex", -3)>>),
      Asset(<<Export(0, Public, "Tex", 0)>>) }

Paths ==
    { "Proj/Content/BP_Foo",
      "Engine/Content/Tex",
      "engine/Plugins/Plug/content/Tex",
      "Proj/Saved/Tex" }

NameArgs == { "Tex", "BP_Foo" }

NoCall == [op |-> "new", arg |-> <<>>, ret |-> <<>>, repeat |-> FALSE, prevret |-> <<>>]

\* reg is the registry, pre the registry as it was before the last call,
\* last the last call (its arguments, what it returned, whether the call
\* before it was the same call, and what that one returned), ncalls the
\* number of calls made
Init ==
    /\ reg \in InitialRegistries
    /\ last = NoCall
    /\ pre = reg
    /\ ncalls = 0
    /\ kind = "none" /\ val = <<>> /\ bytes = <<>> /\ out = <<>> /\ pc = "idle"

\* a call of AssetRegistry::get_name(name)
GetName(name) ==
    /\ ncalls < MaxCalls
    /\ LET r == get_name(reg.names, name)
       IN /\ reg' = [reg EXCEPT !.names = r.names]
          /\ last' = [op |-> "get_name", arg |-> <<name>>, ret |-> r.ret,
                      repeat |-> (last.op = "get_name" /\ last.arg = <<name>>),
                      prevret |-> last.ret]
    /\ pre' = reg
    /\ ncalls' = ncalls + 1
    /\ UNCHANGED <<kind, val, bytes, out, pc>>

\* a call of AssetRegistry::populate(path, asset)
Populate(path, asset) ==
    /\ ncalls < MaxCalls
    /\ LET r == populate(reg, path, asset)
       IN /\ reg' = r.reg
          /\ last' = [op |-> "populate", arg |-> <<path, asset>>, ret |-> r.ret,
                      repeat |-> (last.op = "populate" /\ last.arg = <<path, asset>>),
                      prevret |-> last.ret]
    /\ pre' = reg
    /\ ncalls' = ncalls + 1
    /\ UNCHANGED <<kind, val, bytes, out, pc>>

Next ==
    \/ \E name \in NameArgs : GetName(name)
    \/ \E path \in Paths, asset \in Assets : Populate(path, asset)

Spec == Init /\ [][Next]_vars

(***************************************************************************)
(* Properties of the registry under get_name and populate                  *)
(***************************************************************************)
\* the string a NameIndexFlagged of registry r stands for
Resolve(r, index) == r.names[index.index.lo + 1]

IsPrefix(s, t) == Len(s) <= Len(t) /\ \A i \in 1..Len(s) : t[i] = s[i]

EndsWith(s, suffix) ==
    Len(s) >= Len(suffix) /\ SubSeq(s, Len(s) - Len(suffix) + 1, Len(s)) = suffix

\* the last call was a populate that appended records to the list
Appended == last.op = "populate" /\ Len(reg.asset_data) > Len(pre.asset_data)

\* the first and the second record the last call appended
FirstNew == reg.asset_data[Len(pre.asset_data) + 1]
SecondNew == reg.asset_data[Len(pre.asset_data) + 2]

\* C2: a populate call that repeats the call before it (same path, same
\* asset), that call having succeeded, returns success and leaves the name
\* table and the AssetData list as the first call left them.
C2_PopulateIdempotent ==
    (last.op = "populate" /\ last.repeat /\ last.prevret = Ok)
        => (last.ret = Ok /\ reg.names = pre.names /\ reg.asset_data = pre.asset_data)

\* C2 witness: the repeated call follows one that appended the record and
\* the extra Blueprint record.
C2_Witness ==
    /\ last.op = "populate" /\ last.repeat /\ last.prevret = Ok
    /\ Len(reg.asset_data) >= 2
    /\ Resolve(reg, reg.asset_data[Len(reg.asset_data) - 1].asset_name) = "BP_Foo_C"
    /\ Resolve(reg, reg.asset_data[Len(reg.asset_data)].asset_name) = "BP_Foo"

\* the case of C3: populate found no matching record and appended a first
\* record named "BP_Foo_C" of class "BP_Foo_GeneratedClass" whose object path
\* ends in "BP_Foo.BP_Foo_C"
C3_Case ==
    /\ Appended
    /\ Resolve(reg, FirstNew.asset_name) = "BP_Foo_C"
    /\ Resolve(reg, FirstNew.asset_class) = "BP_Foo_GeneratedClass"
    /\ EndsWith(Resolve(reg, FirstNew.object_path), "BP_Foo.BP_Foo_C")

C3_SecondRecord(class) ==
    /\ Len(reg.asset_data) = Len(pre.asset_data) + 2
    /\ Resolve(reg, SecondNew.asset_name) = "BP_Foo"
    /\ Resolve(reg, SecondNew.object_path) \o "_C" = Resolve(reg, FirstNew.object_path)
    /\ Resolve(reg, SecondNew.asset_class) = class
    /\ SecondNew.package_path = FirstNew.package_path
    /\ SecondNew.package_name = FirstNew.package_name

\* C3 (as amended): in that case populate appends exactly two records; the
\* second has asset name "BP_Foo", the first record's object path without
\* its trailing "_C", the first record's package path and package name, and
\* the class "BP_Foo_" (the class without its trailing "GeneratedClass").
C3_BlueprintRecord == C3_Case => C3_SecondRecord("BP_Foo_")

\* C3 as claimed: the second record's class resolves to "BP_Foo".
C3_AsClaimed == C3_Case => C3_SecondRecord("BP_Foo")

C3_Witness == C3_Case /\ Len(pre.asset_data) = 1

\* the exports of the last populate call's asset
LastExports == last.arg[2].exports

NullOuter(e) == e.outer_index = 0
NullOuterPublic(e) == e.outer_index = 0 /\ "RF_PUBLIC" \in e.object_flags

\* the first export of the last call's asset that satisfies P, if any
FirstExport(P(_)) ==
    LET es == LastExports
    IN es[CHOOSE i \in 1..Len(es) : P(es[i]) /\ \A j \in 1..(i - 1) : ~P(es[j])]

AnyExport(P(_)) == \E i \in 1..Len(LastExports) : P(LastExports[i])

C4_RootIs(P(_)) ==
    last.op = "populate" =>
        /\ (Appended => /\ AnyExport(P)
                         /\ Resolve(reg, FirstNew.asset_name) = FirstExport(P).object_name)
        /\ (last.ret = Err("no root export")
              <=> (IsSome(pak_path_to_game_path(last.arg[1])) /\ ~AnyExport(P)))

\* C4 (as amended): populate uses as root export the first export whose
\* outer reference is null and whose flags include RF_PUBLIC (the record it
\* appends is named after that export); once the path has mapped to a game
\* path, it fails with "no root export" exactly when no export has both.
C4_RootExportPublic == C4_RootIs(NullOuterPublic)

\* C4 as claimed: the root export is the first export whose outer reference
\* is null, whatever its flags, and the call fails with "no root export"
\* exactly when no export has a null outer reference.
C4_AsClaimed ==
    last.op = "populate" =>
        /\ (Appended => /\ AnyExport(NullOuter)
                         /\ Resolve(reg, FirstNew.asset_name) = FirstExport(NullOuter).object_name)
        /\ (last.ret = Err("no root export") <=> ~AnyExport(NullOuter))

\* C4 witness: a record was appended from an asset whose first null-outer
\* export is not public.
C4_Witness ==
    /\ Appended
    /\ ~NullOuterPublic(FirstExport(NullOuter))
    /\ Resolve(reg, FirstNew.asset_name) = "Tex"

\* C5: after any populate call the list before the call is a prefix of the
\* list after it, every name keeps its index, and the Store, the
\* Dependencies and the version fields are unchanged.
C5_PopulateAdditive ==
    last.op = "populate" =>
        /\ IsPrefix(pre.asset_data, reg.asset_data)
        /\ IsPrefix(pre.names, reg.names)
        /\ reg.store = pre.store
        /\ reg.dependencies = pre.dependencies
        /\ reg.version = pre.version
        /\ reg.version_int = pre.version_int
        /\ reg.hash_version = pre.hash_version

\* C5 witness: a populate call on a registry that held a record and names
\* appended two records and interned new names.
C5_Witness ==
    /\ Appended
    /\ Len(pre.asset_data) >= 1 /\ Len(pre.names) >= 1
    /\ Len(reg.asset_data) = Len(pre.asset_data) + 2
    /\ Len(reg.names) > Len(pre.names)

NoDuplicateNames(names) ==
    \A i, j \in 1..Len(names) : names[i] = names[j] => i = j

\* C6: the name table never holds two equal strings; get_name returns the
\* index of its argument, for a string already present the index it had,
\* without growing the table; a second get_name of the same string returns
\* the same index and does not grow the table.
C6_NameInterning ==
    /\ NoDuplicateNames(reg.names)
    /\ last.op = "get_name" =>
        /\ last.ret.instance = None
        /\ InBounds(last.ret.index, Len(reg.names))
        /\ Resolve(reg, last.ret) = last.arg[1]
        /\ IsPrefix(pre.names, reg.names)
        /\ (\E i \in 1..Len(pre.names) : pre.names[i] = last.arg[1])
              => reg.names = pre.names
        /\ last.repeat => (last.ret = last.prevret /\ reg.names = pre.names)

\* C6 witness: get_name called twice in a row with a string that was not in
\* a non-empty table before the first call.
C6_Witness ==
    /\ last.op = "get_name" /\ last.repeat
    /\ Len(reg.names) >= 3
    /\ last.ret.index = u32(Len(reg.names) - 1)

(***************************************************************************)
(* The byte stream of the codec.  A reader is the buffer, the position of  *)
(* the next byte and the error that ended the decode, if any: "eof" (an    *)
(* io error of read_exact on a short stream), "type" (an invalid type tag) *)
(* or "panic".  Once err is set every later read leaves the reader as it   *)
(* is, which is how `?` leaves the function.  A read returns the reader    *)
(* after it and the value read.                                            *)
(***************************************************************************)
Reader(buf) == [buf |-> buf, pos |-> 1, err |-> "none"]

R(rd, v) == [rd |-> rd, v |-> v]

Remaining(rd) == Len(rd.buf) - rd.pos + 1

\* Read::read_exact of n bytes
read_exact(rd, n) ==
    IF rd.err # "none" THEN R(rd, <<>>)
    ELSE IF Remaining(rd) < n THEN R([rd EXCEPT !.err = "eof"], <<>>)
    ELSE R([rd EXCEPT !.pos = @ + n], SubSeq(rd.buf, rd.pos, rd.pos + n - 1))

\* ReadBytesExt::read_u8
read_u8(rd) ==
    LET b == read_exact(rd, 1)
    IN IF b.rd.err # "none" THEN R(b.rd, 0) ELSE R(b.rd, b.v[1])

\* ReadBytesExt::read_u16::<LE>
read_u16_LE(rd) ==
    LET b == read_exact(rd, 2)
    IN IF b.rd.err # "none" THEN R(b.rd, 0) ELSE R(b.rd, b.v[1] + 256 * b.v[2])

\* ReadBytesExt::read_u16::<BE>
read_u16_BE(rd) ==
    LET b == read_exact(rd, 2)
    IN IF b.rd.err # "none" THEN R(b.rd, 0) ELSE R(b.rd, 256 * b.v[1] + b.v[2])

\* ReadBytesExt::read_u32::<LE>
read_u32_LE(rd) ==
    LET b == read_exact(rd, 4)
    IN IF b.rd.err # "none" THEN R(b.rd, [hi |-> 0, lo |-> 0])
       ELSE R(b.rd, [hi |-> b.v[3] + 256 * b.v[4], lo |-> b.v[1] + 256 * b.v[2]])

\* ReadBytesExt::read_u64::<LE>, as the four halves from bit 0 up
read_u64_LE(rd) ==
    LET b == read_exact(rd, 8)
    IN IF b.rd.err # "none" THEN R(b.rd, <<0, 0, 0, 0>>)
       ELSE R(b.rd, <<b.v[1] + 256 * b.v[2], b.v[3] + 256 * b.v[4],
                      b.v[5] + 256 * b.v[6], b.v[7] + 256 * b.v[8]>>)

\* WriteBytesExt::write_u16::<LE>
write_u16_LE(h) == <<h % 256, h \div 256>>

\* WriteBytesExt::write_u16::<BE>
write_u16_BE(h) == <<h \div 256, h % 256>>

\* WriteBytesExt::write_u32::<LE>
write_u32_LE(w) == write_u16_LE(w.lo) \o write_u16_LE(w.hi)

\* WriteBytesExt::write_u64::<LE>
write_u64_LE(q) ==
    write_u16_LE(q[1]) \o write_u16_LE(q[2]) \o write_u16_LE(q[3]) \o write_u16_LE(q[4])

\* the concatenation of the sequences of a sequence
RECURSIVE Flatten(_)
Flatten(ss) == IF ss = <<>> THEN <<>> ELSE Head(ss) \o Flatten(Tail(ss))

\* the sum of a sequence of naturals
RECURSIVE Sum(_)
Sum(ns) == IF ns = <<>> THEN 0 ELSE Head(ns) + Sum(Tail(ns))

(***************************************************************************)
(* Bit operations of the source, on the halves                             *)
(***************************************************************************)
Bit15 == 32768

\* n & 0x80000000 != 0
HighBitSet(w) == w.hi >= Bit15

\* n << 1 >> 1
ClearHighBit(w) == [hi |-> w.hi % Bit15, lo |-> w.lo]

\* n | 0x80000000
SetHighBit(w) == [hi |-> (w.hi % Bit15) + Bit15, lo |-> w.lo]

\* n << 29 >> 29: the low three bits
Low3(w) == [hi |-> 0, lo |-> w.lo % 8]

\* n >> 3
Shr3(w) == [hi |-> w.hi \div 8, lo |-> (w.lo \div 8) + (w.hi % 8) * 8192]

\* n << 3, the bits shifted out of the u32 dropped
Shl3(w) == [hi |-> ((w.hi * 8) % Half) + (w.lo \div 8192), lo |-> (w.lo * 8) % Half]

\* t | m for a t below 8 and an m whose low three bits are clear
OrLow3(t, m) == [hi |-> m.hi, lo |-> m.lo + t.lo]

(***************************************************************************)
(* Strings of the codec side are sequences of Unicode scalar values;       *)
(* as_bytes is their UTF-8 encoding.                                       *)
(***************************************************************************)
ReplacementCharacter == 65533

\* the UTF-8 bytes of one char
utf8_char(c) ==
    IF c < 128 THEN <<c>>
    ELSE IF c < 2048 THEN <<192 + (c \div 64), 128 + (c % 64)>>
    ELSE IF c < 65536
    THEN <<224 + (c \div 4096), 128 + ((c \div 64) % 64), 128 + (c % 64)>>
    ELSE <<240 + (c \div 262144), 128 + ((c \div 4096) % 64),
           128 + ((c \div 64) % 64), 128 + (c % 64)>>

\* str::as_bytes
as_bytes(str) == Flatten([i \in 1..Len(str) |-> utf8_char(str[i])])

IsCont(b, i, lo, hi) == i <= Len(b) /\ b[i] >= lo /\ b[i] <= hi

\* the range the second byte of a sequence must lie in, given the first
SecondLo(b0) == IF b0 = 224 THEN 160 ELSE IF b0 = 240 THEN 144 ELSE 128
SecondHi(b0) == IF b0 = 237 THEN 159 ELSE IF b0 = 244 THEN 143 ELSE 191

\* one step of String::from_utf8_lossy at position i: the char decoded and
\* the number of bytes taken; an invalid sequence gives U+FFFD and takes
\* the bytes of its longest valid prefix
lossy_step(b, i) ==
    LET b0 == b[i]
        bad(n) == [c |-> ReplacementCharacter, n |-> n]
    IN IF b0 < 128 THEN [c |-> b0, n |-> 1]
       ELSE IF b0 >= 194 /\ b0 <= 223
       THEN IF IsCont(b, i + 1, 128, 191)
            THEN [c |-> (b0 - 192) * 64 + (b[i + 1] - 128), n |-> 2]
            ELSE bad(1)
       ELSE IF b0 >= 224 /\ b0 <= 239
       THEN IF ~IsCont(b, i + 1, SecondLo(b0), SecondHi(b0)) THEN bad(1)
            ELSE IF ~IsCont(b, i + 2, 128, 191) THEN bad(2)
            ELSE [c |-> (b0 - 224) * 4096 + (b[i + 1] - 128) * 64 + (b[i + 2] - 128),
                  n |-> 3]
       ELSE IF b0 >= 240 /\ b0 <= 244
       THEN IF ~IsCont(b, i + 1, SecondLo(b0), SecondHi(b0)) THEN bad(1)
            ELSE IF ~IsCont(b, i + 2, 128, 191) THEN bad(2)
            ELSE IF ~IsCont(b, i + 3, 128, 191) THEN bad(3)
            ELSE [c |-> (b0 - 240) * 262144 + (b[i + 1] - 128) * 4096
                          + (b[i + 2] - 128) * 64 + (b[i + 3] - 128),
                  n |-> 4]
       ELSE bad(1)

\* at most n steps from position i on: the chars and the position after
\* them; the steps are split in two so that the nesting grows with log n
RECURSIVE lossy_from(_, _, _)
lossy_from(b, i, n) ==
    IF n = 0 \/ i > Len(b) THEN [v |-> <<>>, i |-> i]
    ELSE IF n = 1 THEN LET st == lossy_step(b, i) IN [v |-> <<st.c>>, i |-> i + st.n]
    ELSE LET first == lossy_from(b, i, n \div 2)
             rest == lossy_from(b, first.i, n - (n \div 2))
         IN [v |-> first.v \o rest.v, i |-> rest.i]

\* String::from_utf8_lossy(..).into_owned(): a step takes at least one byte
from_utf8_lossy(b) == lossy_from(b, 1, Len(b)).v

\* char::from_u32(next.into()).unwrap_or(char::REPLACEMENT_CHARACTER) for a
\* u16: the surrogates are no chars
char_from_u16(h) == IF h >= 55296 /\ h <= 57343 THEN ReplacementCharacter ELSE h

\* c as u16
char_as_u16(c) == c % Half

\* bytes left as they are spelled
to_ascii_lowercase_kept(b) == b

\* u8::to_ascii_lowercase over the bytes of a string
to_ascii_lowercase(b) ==
    [i \in 1..Len(b) |-> IF b[i] >= 65 /\ b[i] <= 90 THEN b[i] + 32 ELSE b[i]]

(***************************************************************************)
(* Primitive codec: Guid, NameIndex, NameIndexFlagged, ExportPath, Type,   *)
(* Pair, MapHandle                                                         *)
(***************************************************************************)
\* a failed assertion panics; a read that already failed is left alone
Check(rd, cond, e) == IF rd.err = "none" /\ ~cond THEN [rd EXCEPT !.err = e] ELSE rd

\* A struct's read function is the list of its reads in order.  One read
\* sets a field from an item (Rd), from a read_array of items whose count is
\* a field read before (RdArray) or from the names closure (RdNames), or
\* asserts what a field holds (AssertEq).  Every read is followed by `?'.
Rd(name, item) == [name |-> name, item |-> item, count |-> "", value |-> <<>>]
RdArray(name, item, count) == [name |-> name, item |-> item, count |-> count, value |-> <<>>]
RdNames(name, lengths) == [name |-> name, item |-> "names", count |-> lengths, value |-> <<>>]
AssertEq(name, value) == [name |-> name, item |-> "assert_eq", count |-> "", value |-> value]

\* T::read(reader) by the name of T
RECURSIVE read_item(_, _)

\* (0..n).map(|_| f(reader)): n more items after those of s, up to the first
\* error; the range is split in two so that the nesting grows with log n
RECURSIVE read_items(_, _, _)
read_items(item, n, s) ==
    CASE n = 0 \/ s.rd.err # "none" -> s
      [] n > 1 /\ s.rd.err = "none" ->
           read_items(item, n - (n \div 2), read_items(item, n \div 2, s))
      [] n = 1 /\ s.rd.err = "none" ->
           LET x == read_item(item, s.rd)
           IN IF x.rd.err # "none" THEN R(x.rd, s.v) ELSE R(x.rd, Append(s.v, x.v))

\* read_array: (0..length).map(|_| f(reader)).collect(), which stops at the
\* first error.  An item takes at least one byte, so the read of item
\* Remaining(rd) + 1 fails whatever the length
read_array(item, length, rd) ==
    LET most == Remaining(rd) + 1
        n == IF length.hi > 0 \/ length.lo > most THEN most ELSE length.lo
    IN read_items(item, n, R(rd, <<>>))

\* the closure reading the names: for each length, that many bytes
RECURSIVE names_read(_, _)
names_read(name_lengths, s) ==
    CASE name_lengths = <<>> \/ s.rd.err # "none" -> s
      [] Len(name_lengths) > 1 /\ s.rd.err = "none" ->
           names_read(SubSeq(name_lengths, (Len(name_lengths) \div 2) + 1, Len(name_lengths)),
                      names_read(SubSeq(name_lengths, 1, Len(name_lengths) \div 2), s))
      [] Len(name_lengths) = 1 /\ s.rd.err = "none" ->
           LET chars == read_exact(s.rd, name_lengths[1])
           IN IF chars.rd.err # "none" THEN R(chars.rd, s.v)
              ELSE R(chars.rd, Append(s.v, from_utf8_lossy(chars.v)))

\* one read of a struct's read function: the reader after it, and the fields
\* read so far by name
read_step(e, s) ==
    LET x == CASE e.item = "assert_eq" ->
                    R(Check(s.rd, s.v[e.name] = e.value, "panic"), s.v[e.name])
               [] e.item = "names" -> names_read(s.v[e.count], R(s.rd, <<>>))
               [] e.item \notin {"assert_eq", "names"} /\ e.count # "" ->
                    read_array(e.item, s.v[e.count], s.rd)
               [] OTHER -> read_item(e.item, s.rd)
    IN R(x.rd, s.v @@ (e.name :> x.v))

\* the reads in order, up to the first that fails
RECURSIVE read_fields(_, _)
read_fields(reads, s) ==
    CASE reads = <<>> \/ s.rd.err # "none" -> s
      [] Len(reads) > 1 /\ s.rd.err = "none" ->
           read_fields(SubSeq(reads, (Len(reads) \div 2) + 1, Len(reads)),
                       read_fields(SubSeq(reads, 1, Len(reads) \div 2), s))
      [] Len(reads) = 1 /\ s.rd.err = "none" -> read_step(reads[1], s)

\* impl Readable for Guid
Guid_read(rd) == read_exact(rd, 16)

\* impl Writable for Guid
Guid_write(g) == g

\* impl Readable for NameIndex; a NameIndex is its u32
NameIndex_read(rd) == read_u32_LE(rd)

\* impl Writable for NameIndex
NameIndex_write(n) == write_u32_LE(n)

\* a read that exposes the stored word as the index, continuation bit included
NameIndexFlagged_read_unmasked(rd) ==
    LET n == read_u32_LE(rd)
        flag == read_u32_LE(n.rd)
    IN IF HighBitSet(n.v)
       THEN R(flag.rd, NameIndexFlagged(n.v, Some(flag.v)))
       ELSE R(n.rd, NameIndexFlagged(n.v, None))

\* impl Readable for NameIndexFlagged
NameIndexFlagged_read(rd) ==
    LET n == read_u32_LE(rd)
        flag == read_u32_LE(n.rd)
    IN IF HighBitSet(n.v)
       THEN R(flag.rd, NameIndexFlagged(ClearHighBit(n.v), Some(flag.v)))
       ELSE R(n.rd, NameIndexFlagged(n.v, None))

\* impl Writable for NameIndexFlagged
NameIndexFlagged_write(x) ==
    IF IsSome(x.instance)
    THEN write_u32_LE(SetHighBit(x.index)) \o write_u32_LE(Unwrap(x.instance))
    ELSE write_u32_LE(x.index)

\* struct ExportPath
ExportPath(object_path, package_path, asset_class) ==
    [object_path |-> object_path, package_path |-> package_path,
     asset_class |-> asset_class]

\* impl Readable for ExportPath
ExportPath_read ==
    <<Rd("object_path", "NameIndexFlagged"), Rd("package_path", "NameIndexFlagged"),
      Rd("asset_class", "NameIndexFlagged")>>

\* impl Writable for ExportPath
ExportPath_write(x) ==
    NameIndexFlagged_write(x.object_path) \o NameIndexFlagged_write(x.package_path)
        \o NameIndexFlagged_write(x.asset_class)

\* enum Type, in the order of the discriminants 0..6
Types ==
    <<"AnsiString", "WideString", "NumberlessName", "Name",
      "NumberlessExportPath", "ExportPath", "LocalizedText">>

\* Type as u32
Type_as_u32(t) == u32((CHOOSE i \in 1..Len(Types) : Types[i] = t) - 1)

\* a conversion that takes every tag above 6 for the last variant
Type_try_from_lenient(v) ==
    IF v.hi = 0 /\ v.lo < Len(Types) THEN Some(Types[v.lo + 1]) ELSE Some(Types[Len(Types)])

\* impl TryFrom<u32> for Type
Type_try_from(v) ==
    IF v.hi = 0 /\ v.lo < Len(Types) THEN Some(Types[v.lo + 1]) ELSE None

\* struct Pair
Pair(name, type_, index) == [name |-> name, type_ |-> type_, index |-> index]

\* a write that packs the index without shifting it clear of the type bits
Pair_write_unshifted(x) ==
    NameIndex_write(x.name)
        \o write_u32_LE([hi |-> x.index.hi,
                         lo |-> x.index.lo - (x.index.lo % 8) + Type_as_u32(x.type_).lo])

\* impl Readable for Pair
Pair_read(rd) ==
    LET name == NameIndex_read(rd)
        n == read_u32_LE(name.rd)
        type_ == Type_try_from(Low3(n.v))
        rd2 == Check(n.rd, IsSome(type_), "type")
    IN IF rd2.err # "none" THEN R(rd2, <<>>)
       ELSE R(rd2, Pair(name.v, Unwrap(type_), Shr3(n.v)))

\* impl Writable for Pair
Pair_write(x) ==
    NameIndex_write(x.name) \o write_u32_LE(OrLow3(Type_as_u32(x.type_), Shl3(x.index)))

\* impl Readable for MapHandle
MapHandle_read(rd) ==
    LET n == read_u64_LE(rd)
    IN R(n.rd, MapHandle(n.v[4] >= Bit15, n.v[3], [hi |-> n.v[2], lo |-> n.v[1]]))

\* impl Writable for MapHandle
MapHandle_write(x) ==
    write_u64_LE(<<x.pair_begin.lo, x.pair_begin.hi, x.num,
                   IF x.has_numberless_keys THEN Bit15 ELSE 0>>)

(***************************************************************************)
(* read_array / write_array and the records                                *)
(***************************************************************************)
\* impl Readable for AssetData
AssetData_read ==
    <<Rd("object_path", "NameIndexFlagged"), Rd("package_path", "NameIndexFlagged"),
      Rd("asset_class", "NameIndexFlagged"), Rd("package_name", "NameIndexFlagged"),
      Rd("asset_name", "NameIndexFlagged"), Rd("tags", "MapHandle"),
      Rd("bundle_count", "u32"), Rd("chunk_count", "u32"),
      RdArray("chunk_ids", "u32", "chunk_count"), Rd("flags", "u32")>>

\* T::write(writer) by the name of T, and the closures given to write_array
RECURSIVE write_item(_, _)

\* write_array: the items' bytes in order
write_array(item, array) == Flatten([i \in 1..Len(array) |-> write_item(item, array[i])])

\* impl Writable for AssetData
AssetData_write(x) ==
    NameIndexFlagged_write(x.object_path) \o NameIndexFlagged_write(x.package_path)
        \o NameIndexFlagged_write(x.asset_class) \o NameIndexFlagged_write(x.package_name)
        \o NameIndexFlagged_write(x.asset_name) \o MapHandle_write(x.tags)
        \o write_u32_LE(x.bundle_count)
        \o write_u32_LE(u32(Len(x.chunk_ids)))
        \o write_array("u32", x.chunk_ids)
        \o write_u32_LE(x.flags)

\* the closure reading one text of the Store: a length, the bytes, a NUL
text_read(rd) ==
    LET len == read_u32_LE(rd)
        rd1 == Check(len.rd, len.v # [hi |-> 0, lo |-> 0], "panic")
        \* a length of 2^16 or more exceeds every stream of the model
        chars == read_exact(rd1, (IF len.v.hi > 0 THEN Len(rd1.buf) + 2 ELSE len.v.lo) - 1)
        nul == read_u8(chars.rd)
    IN R(nul.rd, from_utf8_lossy(chars.v))

\* the ANSI closure: the loop pushes bytes up to the first zero byte, and
\* leaves by `?' at the end of the stream if there is none
ansi_read(rd) ==
    LET zeros == {i \in rd.pos..Len(rd.buf) : rd.buf[i] = 0}
        z == CHOOSE i \in zeros : \A j \in zeros : i <= j
    IN IF rd.err # "none" THEN R(rd, <<>>)
       ELSE IF zeros = {} THEN R([rd EXCEPT !.pos = Len(rd.buf) + 1, !.err = "eof"], <<>>)
       ELSE R([rd EXCEPT !.pos = z + 1], from_utf8_lossy(SubSeq(rd.buf, rd.pos, z - 1)))

\* the wide closure: the loop pushes u16 units as chars up to the first zero
\* unit, and leaves by `?' where no whole unit is left
wide_read(rd) ==
    LET unit(k) == rd.buf[rd.pos + 2 * k] + 256 * rd.buf[rd.pos + 2 * k + 1]
        units == Remaining(rd) \div 2
        zeros == {k \in 0..units - 1 : unit(k) = 0}
        z == CHOOSE k \in zeros : \A j \in zeros : k <= j
    IN IF rd.err # "none" THEN R(rd, <<>>)
       ELSE IF zeros = {} THEN R([rd EXCEPT !.pos = @ + 2 * units, !.err = "eof"], <<>>)
       ELSE R([rd EXCEPT !.pos = @ + 2 * (z + 1)],
              [k \in 1..z |-> char_from_u16(unit(k - 1))])

\* impl Readable for Dependencies
Dependencies_read ==
    <<Rd("dependencies_size", "u64"), Rd("count", "u32"),
      RdArray("dependencies", "u32", "count"), Rd("package_data_buffer_size", "u32")>>

\* impl Writable for Dependencies
Dependencies_write(x) ==
    write_u64_LE(x.dependencies_size)
        \o write_u32_LE(u32(Len(x.dependencies)))
        \o write_array("u32", x.dependencies)
        \o write_u32_LE(x.package_data_buffer_size)

(***************************************************************************)
(* Store                                                                   *)
(***************************************************************************)
\* const MAGIC_START: u32 = 0x12345679
MAGIC_START == [hi |-> 4660, lo |-> 22137]
\* const MAGIC_END: u32 = 0x87654321
MAGIC_END == [hi |-> 34661, lo |-> 17185]

\* impl Readable for Store: the header, the tables, the strings and the
\* pairs, between the two assert_eq! on the magic words
Store_read ==
    <<Rd("magic", "u32"), AssertEq("magic", MAGIC_START),
      Rd("nbl_names_count", "u32"), Rd("names_count", "u32"),
      Rd("nbl_export_path_count", "u32"), Rd("export_path_count", "u32"),
      Rd("texts_count", "u32"), Rd("ansi_strings_count", "u32"),
      Rd("wide_strings_count", "u32"), Rd("ansi_string_bytes", "u32"),
      Rd("wide_string_bytes", "u32"), Rd("nbl_pair_count", "u32"),
      Rd("pair_count", "u32"), Rd("text_bytes", "u32"),
      RdArray("texts", "text", "texts_count"),
      RdArray("nbl_names", "NameIndexFlagged", "nbl_names_count"),
      RdArray("names", "NameIndexFlagged", "names_count"),
      RdArray("nbl_export_paths", "ExportPath", "nbl_export_path_count"),
      RdArray("export_paths", "ExportPath", "export_path_count"),
      RdArray("ansi_string_offsets", "u32", "ansi_strings_count"),
      RdArray("wide_string_offsets", "u32", "wide_strings_count"),
      RdArray("ansi_strings", "ansi", "ansi_strings_count"),
      RdArray("wide_strings", "wide", "wide_strings_count"),
      RdArray("pairs", "Pair", "nbl_pair_count"),
      Rd("magic_end", "u32"), AssertEq("magic_end", MAGIC_END)>>

\* the sizes summed for the header and the offsets: of an ANSI string its
\* bytes and the NUL, of a wide string its chars and the terminator, of a
\* text its bytes, the NUL and the length prefix
ansi_sizes(strs) == [i \in 1..Len(strs) |-> Len(as_bytes(strs[i])) + 1]
wide_sizes_in_bytes(strs) == [i \in 1..Len(strs) |-> 2 * (Len(strs[i]) + 1)]
wide_sizes(strs) == [i \in 1..Len(strs) |-> Len(strs[i]) + 1]
text_sizes(strs) == [i \in 1..Len(strs) |-> Len(as_bytes(strs[i])) + 1 + 4]

\* the offsets written before a payload section: the running sum of sizes
offsets(sizes) == [i \in 1..Len(sizes) |-> u32(Sum(SubSeq(sizes, 1, i - 1)))]

text_write(str) == write_u32_LE(u32(Len(as_bytes(str)) + 1)) \o as_bytes(str) \o <<0>>
ansi_write(str) == as_bytes(str) \o <<0>>
wide_write(str) ==
    Flatten([i \in 1..Len(str) |-> write_u16_LE(char_as_u16(str[i]))]) \o write_u16_LE(0)

\* the twelve count and size fields Store::write puts after MAGIC_START
Store_header(x) ==
    <<u32(Len(x.nbl_names)), u32(Len(x.names)), u32(Len(x.nbl_export_paths)),
      u32(Len(x.export_paths)), u32(Len(x.texts)), u32(Len(x.ansi_strings)),
      u32(Len(x.wide_strings)), u32(Sum(ansi_sizes(x.ansi_strings))),
      u32(Sum(wide_sizes(x.wide_strings))), u32(Len(x.pairs)), x.pair_count,
      u32(Sum(text_sizes(x.texts)))>>

\* impl Writable for Store
Store_write(x) ==
    write_u32_LE(MAGIC_START)
        \o write_array("u32", Store_header(x))
        \o write_array("text", x.texts)
        \o write_array("NameIndexFlagged", x.nbl_names)
        \o write_array("NameIndexFlagged", x.names)
        \o write_array("ExportPath", x.nbl_export_paths)
        \o write_array("ExportPath", x.export_paths)
        \o write_array("u32", offsets(ansi_sizes(x.ansi_strings)))
        \o write_array("u32", offsets(wide_sizes(x.wide_strings)))
        \o write_array("ansi", x.ansi_strings)
        \o write_array("wide", x.wide_strings)
        \o write_array("Pair", x.pairs)
        \o write_u32_LE(MAGIC_END)

(***************************************************************************)
(* AssetRegistry                                                           *)
(***************************************************************************)
\* cityhasher::hash::<u64> is CityHash64 (version 1.1) of the bytes.  The
\* crate is not part of the repository; what follows is the published
\* algorithm for inputs of at most 16 bytes, which the names of the model
\* are, and the test of the source fixes its value on the bytes "Timestamp".
\* A u64 is its four 16-bit halves from bit 0 up.
K0 == <<12583, 38859, 51292, 50085>>
K2 == <<16463, 12176, 27195, 39649>>

\* u64 wrapping addition
add64(a, b) ==
    LET s[k \in 1..4] == a[k] + b[k] + (IF k = 1 THEN 0 ELSE s[k - 1] \div Half)
    IN <<s[1] % Half, s[2] % Half, s[3] % Half, s[4] % Half>>

\* u64 wrapping multiplication, byte by byte
mul64(a, b) ==
    LET byte(x, k) == IF k % 2 = 0 THEN x[(k \div 2) + 1] % 256 ELSE x[(k \div 2) + 1] \div 256
        r[k \in 0..7] ==
            Sum([i \in 1..k + 1 |-> byte(a, i - 1) * byte(b, k - i + 1)])
                + (IF k = 0 THEN 0 ELSE r[k - 1] \div 256)
        half(j) == (r[2 * j - 2] % 256) + 256 * (r[2 * j - 1] % 256)
    IN <<half(1), half(2), half(3), half(4)>>

\* u64 bitwise exclusive or
xor64(a, b) ==
    LET xor16(x, y) ==
            LET acc[i \in 0..16] ==
                    IF i = 0 THEN 0
                    ELSE 2^(i - 1) * (((x \div 2^(i - 1)) + (y \div 2^(i - 1))) % 2)
                           + acc[i - 1]
            IN acc[16]
    IN <<xor16(a[1], b[1]), xor16(a[2], b[2]), xor16(a[3], b[3]), xor16(a[4], b[4])>>

\* Rotate: the u64 rotated right by s bits, 0 < s < 64
rotate(a, s) ==
    LET q == s \div 16
        r == s % 16
        half(i) == (a[((i - 1 + q) % 4) + 1] \div 2^r)
                     + (a[((i + q) % 4) + 1] % 2^r) * 2^(16 - r)
    IN <<half(1), half(2), half(3), half(4)>>

\* ShiftMix: val ^ (val >> 47)
shift_mix(a) == xor64(a, <<(a[3] \div 32768) + (a[4] % 32768) * 2, a[4] \div 32768, 0, 0>>)

\* Fetch64 / Fetch32: the n bytes from position i, little-endian
fetch(s, i, n) ==
    LET byte(k) == IF k < n THEN s[i + k] ELSE 0
        half(j) == byte(2 * j - 2) + 256 * byte(2 * j - 1)
    IN <<half(1), half(2), half(3), half(4)>>

\* HashLen16(u, v, mul)
hash_len_16(u, v, mul) ==
    LET a == shift_mix(mul64(xor64(u, v), mul))
        b == shift_mix(mul64(xor64(v, a), mul))
    IN mul64(b, mul)

\* CityHash64 of at most 16 bytes (HashLen0to16)
cityhasher_hash(s) ==
    LET n == Len(s)
        mul == add64(K2, <<2 * n, 0, 0, 0>>)
    IN CASE n = 0 -> K2
         [] n \in 1..3 ->
              LET y == <<s[1] + 256 * s[(n \div 2) + 1], 0, 0, 0>>
                  z == <<n + 4 * s[n], 0, 0, 0>>
              IN mul64(shift_mix(xor64(mul64(y, K2), mul64(z, K0))), K2)
         [] n \in 4..7 ->
              hash_len_16(add64(<<n, 0, 0, 0>>, mul64(fetch(s, 1, 4), <<8, 0, 0, 0>>)),
                          fetch(s, n - 3, 4), mul)
         [] n \in 8..16 ->
              LET a == add64(fetch(s, 1, 8), K2)
                  b == fetch(s, n - 7, 8)
              IN hash_len_16(add64(mul64(rotate(b, 37), mul), a),
                             mul64(add64(rotate(a, 25), b), mul), mul)

\* collect::<IndexSet<String>>: the strings inserted in order
RECURSIVE IndexSet_collect(_, _)
IndexSet_collect(strs, acc) ==
    IF strs = <<>> THEN acc
    ELSE IndexSet_collect(Tail(strs), IndexSet_insert(acc, Head(strs)))

\* impl Readable for AssetRegistry
AssetRegistry_read ==
    <<Rd("version", "Guid"), Rd("version_int", "u32"), Rd("name_count", "u32"),
      Rd("num_string_bytes", "u32"), Rd("hash_version", "u64"),
      RdArray("lowercase_hashes", "u64", "name_count"),
      RdArray("name_lengths", "u16be", "name_count"),
      RdNames("names", "name_lengths"),
      Rd("store", "Store"), Rd("asset_count", "u32"),
      RdArray("asset_data", "AssetData", "asset_count"),
      Rd("dependencies", "Dependencies")>>

\* the types whose read function is a list of reads
Structs == {"ExportPath", "AssetData", "Dependencies", "Store", "AssetRegistry"}

reads_of(item) ==
    CASE item = "ExportPath" -> ExportPath_read
      [] item = "AssetData" -> AssetData_read
      [] item = "Dependencies" -> Dependencies_read
      [] item = "Store" -> Store_read
      [] item = "AssetRegistry" -> AssetRegistry_read

\* Ok(Self { .. }) of the fields read
Self_of(item, v) ==
    CASE item = "ExportPath" -> ExportPath(v.object_path, v.package_path, v.asset_class)
      [] item = "AssetData" ->
           AssetData(v.object_path, v.package_path, v.asset_class, v.package_name,
                     v.asset_name, v.tags, v.bundle_count, v.chunk_ids, v.flags)
      [] item = "Dependencies" ->
           Dependencies(v.dependencies_size, v.dependencies, v.package_data_buffer_size)
      [] item = "Store" ->
           Store(v.pair_count, v.texts, v.nbl_names, v.names, v.nbl_export_paths,
                 v.export_paths, v.ansi_strings, v.wide_strings, v.pairs)
      [] item = "AssetRegistry" ->
           AssetRegistry(v.version, v.version_int, v.hash_version,
                         IndexSet_collect(v.names, <<>>), v.store, v.asset_data,
                         v.dependencies)

read_item(item, rd) ==
    IF item \in Structs
    THEN LET s == read_fields(reads_of(item), R(rd, <<>>))
         IN IF s.rd.err # "none" THEN R(s.rd, <<>>) ELSE R(s.rd, Self_of(item, s.v))
    ELSE CASE item = "u32" -> read_u32_LE(rd)
           [] item = "u64" -> read_u64_LE(rd)
           [] item = "u16be" -> read_u16_BE(rd)
           [] item = "Guid" -> Guid_read(rd)
           [] item = "NameIndex" -> NameIndex_read(rd)
           [] item = "NameIndexFlagged" -> NameIndexFlagged_read(rd)
           [] item = "MapHandle" -> MapHandle_read(rd)
           [] item = "Pair" -> Pair_read(rd)
           [] item = "text" -> text_read(rd)
           [] item = "ansi" -> ansi_read(rd)
           [] item = "wide" -> wide_read(rd)

\* impl Writable for AssetRegistry
AssetRegistry_write(x) ==
    Guid_write(x.version)
        \o write_u32_LE(x.version_int)
        \o write_u32_LE(u32(Len(x.names)))
        \o write_u32_LE(u32(Sum([i \in 1..Len(x.names) |-> Len(as_bytes(x.names[i]))])))
        \o write_u64_LE(x.hash_version)
        \o write_array("name_hash", x.names)
        \o write_array("name_length", x.names)
        \o write_array("name_bytes", x.names)
        \o Store_write(x.store)
        \o write_u32_LE(u32(Len(x.asset_data)))
        \o write_array("AssetData", x.asset_data)
        \o Dependencies_write(x.dependencies)

\* the name closures of AssetRegistry::write: the hash of the lower-cased
\* name, its length in bytes `as u16' big-endian, and its bytes
write_item(item, v) ==
    CASE item = "u32" -> write_u32_LE(v)
      [] item = "NameIndexFlagged" -> NameIndexFlagged_write(v)
      [] item = "ExportPath" -> ExportPath_write(v)
      [] item = "Pair" -> Pair_write(v)
      [] item = "AssetData" -> AssetData_write(v)
      [] item = "text" -> text_write(v)
      [] item = "ansi" -> ansi_write(v)
      [] item = "wide" -> wide_write(v)
      [] item = "name_hash" -> write_u64_LE(cityhasher_hash(to_ascii_lowercase(as_bytes(v))))
      [] item = "name_length" -> write_u16_BE(Len(as_bytes(v)) % Half)
      [] item = "name_bytes" -> as_bytes(v)

(***************************************************************************)
(* SpecCodec: the read and write functions applied to sampled values and   *)
(* byte streams.  A value is written and the bytes read back (the bytes    *)
(* of a Store or a registry possibly with one byte overwritten in          *)
(* between), or a byte stream is read and the decoded value written back.  *)
(***************************************************************************)
Prims == {"Guid", "NameIndex", "NameIndexFlagged", "ExportPath", "Pair", "MapHandle"}

\* Writable::write of a value of the given kind
Encode(k, v) ==
    CASE k = "Guid" -> Guid_write(v)
      [] k = "NameIndex" -> NameIndex_write(v)
      [] k = "NameIndexFlagged" -> NameIndexFlagged_write(v)
      [] k = "ExportPath" -> ExportPath_write(v)
      [] k = "Pair" -> Pair_write(v)
      [] k = "MapHandle" -> MapHandle_write(v)
      [] k = "Store" -> Store_write(v)
      [] k = "AssetRegistry" -> AssetRegistry_write(v)

\* what the caller of a read gets: the value (and the bytes consumed), an
\* Err, or a panic unwinding through it
Finish(r) ==
    IF r.rd.err = "none" THEN [tag |-> "Ok", v |-> r.v, used |-> r.rd.pos - 1]
    ELSE IF r.rd.err = "panic" THEN [tag |-> "Panic"]
    ELSE [tag |-> "Err",
          error |-> IF r.rd.err = "type" THEN "invalid AssetRegistry type"
                    ELSE "failed to fill whole buffer"]

\* Readable::read of the given kind on a fresh reader over the bytes
Decode(k, b) == Finish(read_item(k, Reader(b)))

\* sampled halves: 0, 1, the halves around 2^29 (8192 * 2^16) and 2^31
\* (32768 * 2^16), and all ones
U32Menu ==
    {[hi |-> h, lo |-> l] : h \in {0, 1, 8191, 8192, 32767, 32768, 65535},
                            l \in {0, 1, 6, 7, 8, 65535}}
MaxU32 == [hi |-> 65535, lo |-> 65535]

NameIndexFlaggedMenu ==
    {NameIndexFlagged(i, n) : i \in U32Menu,
                              n \in {None, Some(u32(0)), Some(u32(5)), Some(MaxU32)}}

FewNameIndexFlagged ==
    { Plain(0), NameIndexFlagged(u32(3), Some(u32(0))),
      NameIndexFlagged([hi |-> 32767, lo |-> 65535], Some(MaxU32)) }

OtherGuid == [i \in 1..16 |-> 16 * i - 1]

\* strings: "Hi", "hi", U+00E9, U+20AC "B", a string holding U+0000, and
\* U+1F600 (outside the basic multilingual plane)
StrHi == <<72, 105>>
StrLowerHi == <<104, 105>>
StrEAcute == <<233>>
StrWithNul == <<65, 0, 66>>
StrAstral == <<128512, 66>>

\* a Store with every table filled, within what the format can hold
StoreFull ==
    Store(u32(2), <<StrHi, StrWithNul>>,
          <<Plain(1)>>, <<NameIndexFlagged(u32(2), Some(u32(5)))>>,
          <<ExportPath(Plain(0), Plain(1), Plain(2))>>,
          <<ExportPath(NameIndexFlagged(u32(0), Some(u32(0))), Plain(1), Plain(2))>>,
          <<StrHi, <<>>, StrEAcute>>, <<<<8364, 66>>, <<>>>>,
          <<Pair(u32(0), "Name", u32(0)),
            Pair(u32(1), "LocalizedText", [hi |-> 8191, lo |-> 65535])>>)

StoreSamples ==
    { EmptyStore,
      StoreFull,
      \* pair_count differing from the number of pairs
      [EmptyStore EXCEPT !.pair_count = u32(9)],
      \* a Pair index of 2^29
      [EmptyStore EXCEPT !.pairs = <<Pair(u32(0), "AnsiString", [hi |-> 8192, lo |-> 0])>>],
      \* an ANSI string holding U+0000
      [EmptyStore EXCEPT !.ansi_strings = <<StrWithNul>>],
      \* a wide string holding a char above U+FFFF
      [EmptyStore EXCEPT !.wide_strings = <<StrAstral>>],
      \* a wide string holding U+0000
      [EmptyStore EXCEPT !.wide_strings = <<StrWithNul>>],
      \* a name index of 2^31 + 1 without instance number
      [EmptyStore EXCEPT !.names = <<NameIndexFlagged([hi |-> 32768, lo |-> 1], None)>>] }

AssetDataFull ==
    AssetData(Plain(0), Plain(1), NameIndexFlagged(u32(2), Some(u32(0))), Plain(1),
              NameIndexFlagged(u32(0), Some(MaxU32)), MapHandle(TRUE, 2, u32(0)),
              u32(3), <<u32(1), MaxU32>>, MaxU32)

AssetDataPlain ==
    AssetData(Plain(2), Plain(2), Plain(2), Plain(2), Plain(2),
              MapHandle(FALSE, 0, u32(0)), u32(0), <<>>, u32(0))

AssetDataSamples ==
    { <<>>, <<AssetDataFull>>, <<AssetDataPlain, AssetDataFull>>,
      \* an asset_name index of 2^31 without instance number
      <<[AssetDataPlain EXCEPT !.asset_name = NameIndexFlagged([hi |-> 32768, lo |-> 0], None)]>> }

\* "Timestamp", the name of the hash test, and "timestamp"
StrTimestamp == <<84, 105, 109, 101, 115, 116, 97, 109, 112>>
StrLowerTimestamp == <<116, 105, 109, 101, 115, 116, 97, 109, 112>>

NamesSamples ==
    { <<>>, <<StrHi>>, <<StrHi, StrEAcute, StrLowerHi, StrAstral>>,
      <<StrTimestamp, StrLowerTimestamp>>,
      \* two one-char names, U+0000 and "A", one overwritten byte apart
      <<<<0>>, <<65>>>> }

\* registries: one with every part filled, and that one with each part in
\* turn replaced by each of its samples
RegistryFull ==
    AssetRegistry(OtherGuid, MaxU32, <<65535, 0, 1, 32768>>, <<StrHi, StrEAcute, StrLowerHi>>,
                  StoreFull, <<AssetDataFull>>,
                  Dependencies(<<1, 2, 3, 65535>>, <<u32(7), MaxU32>>, u32(9)))

RegistrySamples ==
    { RegistryOf(<<>>, <<>>), RegistryFull }
      \cup {[RegistryFull EXCEPT !.names = n] : n \in NamesSamples}
      \cup {[RegistryFull EXCEPT !.store = st] : st \in StoreSamples}
      \cup {[RegistryFull EXCEPT !.asset_data = a] : a \in AssetDataSamples}
      \cup {[RegistryFull EXCEPT !.dependencies = EmptyDependencies],
            [RegistryFull EXCEPT !.version = ZeroGuid, !.version_int = u32(1),
                                 !.hash_version = <<1, 0, 0, 0>>]}

\* the values of each kind that are written
Values(k) ==
    CASE k = "Guid" -> {ZeroGuid, OtherGuid}
      [] k = "NameIndex" -> U32Menu
      [] k = "NameIndexFlagged" -> NameIndexFlaggedMenu
      [] k = "ExportPath" ->
           {ExportPath(a, b, c) : a, b, c \in FewNameIndexFlagged}
      [] k = "Pair" ->
           {Pair(n, Types[t], i) : n \in {u32(0), MaxU32}, t \in 1..Len(Types), i \in U32Menu}
      [] k = "MapHandle" ->
           {MapHandle(f, n, b) : f \in BOOLEAN, n \in {0, 1, 65535}, b \in {u32(0), u32(7), MaxU32}}
      [] k = "Store" -> StoreSamples
      [] k = "AssetRegistry" -> RegistrySamples

\* the byte streams of each primitive kind that are read: whole encodings
\* with every bit pattern of the menus, and streams that end early
Streams(k) ==
    CASE k = "Guid" -> {ZeroGuid, OtherGuid \o <<1>>, SubSeq(OtherGuid, 1, 15)}
      [] k = "NameIndex" -> {write_u32_LE(w) : w \in U32Menu} \cup {<<1, 2, 3>>}
      [] k = "NameIndexFlagged" ->
           {write_u32_LE(w) \o write_u32_LE(i) : w \in U32Menu, i \in {u32(0), MaxU32}}
             \cup {write_u32_LE(w) : w \in U32Menu}
      [] k = "ExportPath" ->
           {NameIndexFlagged_write(a) \o NameIndexFlagged_write(b) \o NameIndexFlagged_write(c)
              : a, b, c \in FewNameIndexFlagged}
             \cup {write_u32_LE(MaxU32)}
      [] k = "Pair" ->
           {write_u32_LE(n) \o write_u32_LE(w) : n \in {u32(0), MaxU32}, w \in U32Menu}
             \cup {write_u32_LE(MaxU32) \o <<0>>}
      [] k = "MapHandle" ->
           {write_u64_LE(<<a, b, c, d>>) :
              a \in {0, 65535}, b \in {0, 65535}, c \in {0, 1, 65535},
              d \in {0, 1, 8191, 8192, 32767, 32768, 65535}}
             \cup {<<0, 0, 0, 0, 0, 0, 0>>}

\* bytes a stream byte may be overwritten with
CorruptBytes == {0, 255}

\* kind is the type being coded; pc tells which of val, bytes and out are
\* set: "value" (val), "written" / "corrupted" (bytes written from val),
\* "read" / "read_corrupted" (out read from bytes), "bytes" (bytes),
\* "decoded" (val read from bytes), "rewritten" (out written from val)
InitCodec ==
    /\ reg = RegistryOf(<<>>, <<>>) /\ last = NoCall /\ pre = reg /\ ncalls = 0
    /\ kind \in Prims \cup {"Store", "AssetRegistry"}
    /\ \/ pc = "value" /\ val \in Values(kind) /\ bytes = <<>>
       \/ pc = "bytes" /\ kind \in Prims /\ bytes \in Streams(kind) /\ val = <<>>
    /\ out = <<>>

\* Writable::write of the sampled value
WriteValue ==
    /\ pc = "value"
    /\ bytes' = Encode(kind, val)
    /\ pc' = "written"
    /\ UNCHANGED <<reg, last, pre, ncalls, kind, val, out>>

\* one byte of a written Store or registry is overwritten
Corrupt(i, b) ==
    /\ pc = "written"
    /\ kind \in {"Store", "AssetRegistry"}
    /\ bytes[i] # b
    /\ bytes' = [bytes EXCEPT ![i] = b]
    /\ pc' = "corrupted"
    /\ UNCHANGED <<reg, last, pre, ncalls, kind, val, out>>

\* Readable::read of the written bytes
ReadBack ==
    /\ pc \in {"written", "corrupted"}
    /\ out' = Decode(kind, bytes)
    /\ pc' = IF pc = "written" THEN "read" ELSE "read_corrupted"
    /\ UNCHANGED <<reg, last, pre, ncalls, kind, val, bytes>>

\* Readable::read of the sampled byte stream
ReadBytes ==
    /\ pc = "bytes"
    /\ val' = Decode(kind, bytes)
    /\ pc' = "decoded"
    /\ UNCHANGED <<reg, last, pre, ncalls, kind, bytes, out>>

\* Writable::write of the value that was decoded
WriteBack ==
    /\ pc = "decoded"
    /\ val.tag = "Ok"
    /\ out' = Encode(kind, val.v)
    /\ pc' = "rewritten"
    /\ UNCHANGED <<reg, last, pre, ncalls, kind, val, bytes>>

NextCodec ==
    \/ WriteValue
    \/ \E i \in 1..Len(bytes), b \in CorruptBytes : Corrupt(i, b)
    \/ ReadBack
    \/ ReadBytes
    \/ WriteBack

SpecCodec == InitCodec /\ [][NextCodec]_vars

(***************************************************************************)
(* Properties of the codec                                                 *)
(***************************************************************************)
\* the bytes were all taken and gave this value
ReadGave(v) == out = [tag |-> "Ok", v |-> v, used |-> Len(bytes)]

\* C1: AssetRegistry::read of the bytes AssetRegistry::write made of any
\* registry value succeeds and returns a value equal to the one written.
C1_AsClaimed == (kind = "AssetRegistry" /\ pc = "read") => ReadGave(val)

\* the word in the four bytes from position i
WordAt(b, i) == read_u32_LE(Reader(SubSeq(b, i, i + 3))).v

\* the stream is long enough for both and one of the magic words is not
\* the expected one
BadFraming(b) ==
    /\ Len(b) >= 8
    /\ \/ WordAt(b, 1) # MAGIC_START
       \/ WordAt(b, Len(b) - 3) # MAGIC_END

\* C7: Store::read of a stream whose leading word is not MAGIC_START or
\* whose trailing word is not MAGIC_END returns an error value to its
\* caller.
C7_AsClaimed ==
    (kind = "Store" /\ pc = "read_corrupted" /\ BadFraming(bytes)) => out.tag = "Err"

\* C8: for each primitive, writing the value decoded from a byte stream
\* gives back the bytes the decode consumed.
C8_AsClaimed == (pc = "rewritten") => out = SubSeq(bytes, 1, val.used)

\* index < 2^31
Below2Pow31(w) == w.hi < Bit15

\* C9: a NameIndexFlagged with an index below 2^31 and any instance, absent
\* or present, is read back from its written bytes as it was, an absent
\* instance staying absent; and no decoded index has bit 31 set.
C9_NameIndexFlaggedSymmetry ==
    /\ (kind = "NameIndexFlagged" /\ pc = "read" /\ Below2Pow31(val.index)) =>
          /\ ReadGave(val)
          /\ (val.instance = None <=> out.v.instance = None)
    /\ (kind = "NameIndexFlagged" /\ pc \in {"read", "read_corrupted"} /\ out.tag = "Ok") =>
          Below2Pow31(out.v.index)
    /\ (kind = "NameIndexFlagged" /\ pc \in {"decoded", "rewritten"} /\ val.tag = "Ok") =>
          Below2Pow31(val.v.index)

\* C9 witness: the largest index below 2^31 with instance 0 was written and
\* read back with that instance.
C9_Witness ==
    /\ kind = "NameIndexFlagged" /\ pc = "read"
    /\ val = NameIndexFlagged([hi |-> 32767, lo |-> 65535], Some(u32(0)))
    /\ out.tag = "Ok" /\ out.v.instance = Some(u32(0))

\* index < 2^29
Below2Pow29(w) == w.hi < 8192

\* the second word of a written Pair holds the type in its low 3 bits and
\* the index in the 29 bits above
Packed(w, x) ==
    /\ w.lo % 8 = Type_as_u32(x.type_).lo
    /\ w.lo \div 8 = x.index.lo % 8192
    /\ w.hi = (x.index.lo \div 8192) + 8 * x.index.hi

\* C10: a Pair with an index below 2^29 is read back from its written bytes
\* with the same name, type and index, and the second word written packs
\* the type below the index.
C10_PairPacking ==
    (kind = "Pair" /\ pc = "read" /\ Below2Pow29(val.index)) =>
        /\ ReadGave(val)
        /\ Packed(WordAt(bytes, 5), val)

\* C10 witness: the largest index below 2^29 with the last Type variant was
\* written and read back.
C10_Witness ==
    /\ kind = "Pair" /\ pc = "read"
    /\ val.index = [hi |-> 8191, lo |-> 65535] /\ val.type_ = "LocalizedText"
    /\ out.tag = "Ok" /\ out.v = val

\* the error of Type::try_from, as the decode returns it
TypeErr == [tag |-> "Err", error |-> "invalid AssetRegistry type"]

\* the pairs of the written Store, or of the written registry's Store
WrittenPairs == IF kind = "Store" THEN val.pairs ELSE val.store.pairs

\* the place in the written bytes of the word that packs the type and the
\* index of pair j: the pairs end the Store before its closing magic word,
\* and in a registry the asset data and the dependencies follow the Store
PairWord(j) ==
    LET after == IF kind = "Store" THEN 0
                 ELSE 4 + Len(write_array("AssetData", val.asset_data))
                        + Len(Dependencies_write(val.dependencies))
    IN Len(bytes) - after - 4 - 8 * (Len(WrittenPairs) - j) - 3

\* the bytes are those written, but for the low byte of one pair's word,
\* which holds the tag 7
TagOverwritten ==
    /\ kind \in {"Store", "AssetRegistry"}
    /\ pc = "read_corrupted"
    /\ \E j \in 1..Len(WrittenPairs) :
           bytes = [Encode(kind, val) EXCEPT ![PairWord(j)] = 255]

\* C11: Type::try_from gives the variant of discriminant v for v in 0..6 and
\* an error for every other u32; Pair::read of a word whose low 3 bits are 7
\* returns that error and of any other word the variant of those bits; a
\* Store or a registry whose bytes hold such a word fails to decode with
\* that error.
C11_InvalidTypeTag ==
    /\ \A v \in U32Menu :
          IF v.hi = 0 /\ v.lo <= 6
          THEN /\ IsSome(Type_try_from(v))
               /\ Type_as_u32(Unwrap(Type_try_from(v))) = v
          ELSE Type_try_from(v) = None
    /\ (kind = "Pair" /\ pc = "decoded" /\ Len(bytes) = 8) =>
          LET t == WordAt(bytes, 5).lo % 8
          IN IF t = 7 THEN val = TypeErr
             ELSE val.tag = "Ok" /\ val.v.type_ = Types[t + 1]
    /\ TagOverwritten => out = TypeErr

\* C11 witness: a registry was written, the tag of a pair of its Store was
\* overwritten with 7, and the decode returned the error.
C11_Witness == TagOverwritten /\ kind = "AssetRegistry" /\ out = TypeErr

\* the collections of a Store: every field but the retained pair_count
Collections(st) ==
    <<st.texts, st.nbl_names, st.names, st.nbl_export_paths, st.export_paths,
      st.ansi_strings, st.wide_strings, st.pairs>>

\* C12 as claimed: the bytes Store::write makes depend on the collections
\* of the Store alone, so that every Store with the same collections as the
\* one written encodes to the same bytes.
C12_AsClaimed ==
    (kind = "Store" /\ pc = "written") =>
        \A st \in StoreSamples :
            Collections(st) = Collections(val) => Encode("Store", st) = bytes

\* the hash written for the i-th name of the registry: the hashes follow
\* the 36 bytes of the version, the two counts, the size and the hash version
HashOf(i) == read_u64_LE(Reader(SubSeq(bytes, 29 + 8 * i, 36 + 8 * i))).v

\* 0x62701ea6363a9b97, the value the hash test asserts
Fixture == <<39831, 13882, 7846, 25200>>

SpelledTimestamp(name) == name \in {StrTimestamp, StrLowerTimestamp}

\* C13 (as amended): the hash function gives the fixture on the bytes
\* "Timestamp" as spelled; AssetRegistry::write hashes the lower-cased
\* bytes of a name, so it writes equal hashes for names that differ in
\* ASCII case only, and for "Timestamp" as for "timestamp" the hash of the
\* bytes "timestamp", 0x43546e54c56ed19a, which is not the fixture.
C13_HashOfLowerCase ==
    /\ cityhasher_hash(as_bytes(StrTimestamp)) = Fixture
    /\ (kind = "AssetRegistry" /\ pc = "written") =>
          /\ \A i, j \in 1..Len(val.names) :
                to_ascii_lowercase(as_bytes(val.names[i]))
                    = to_ascii_lowercase(as_bytes(val.names[j]))
                  => HashOf(i) = HashOf(j)
          /\ \A i \in 1..Len(val.names) :
                SpelledTimestamp(val.names[i]) =>
                    /\ HashOf(i) = <<53658, 50542, 28244, 17236>>
                    /\ HashOf(i) = cityhasher_hash(as_bytes(StrLowerTimestamp))

\* C13 as claimed: the hash written for the name "Timestamp" and the hash
\* written for the name "timestamp" are both the fixture.
C13_AsClaimed ==
    (kind = "AssetRegistry" /\ pc = "written") =>
        \A i \in 1..Len(val.names) : SpelledTimestamp(val.names[i]) => HashOf(i) = Fixture

\* C13 witness: a registry naming "Timestamp" and "timestamp" was written,
\* with one hash for both.
C13_Witness ==
    /\ kind = "AssetRegistry" /\ pc = "written"
    /\ val.names = <<StrTimestamp, StrLowerTimestamp>>
    /\ HashOf(1) = HashOf(2)


(***************************************************************************)
(* Properties of the records populate appends                              *)
(***************************************************************************)
\* the logical path of each pak path of the model that lies under a
\* recognised mount root, and the parent of that logical path
LogicalPath(path) ==
    CASE path = "Proj/Content/BP_Foo" -> "/Game/BP_Foo"
      [] path = "Engine/Content/Tex" -> "/Engine/Tex"
      [] path = "engine/Plugins/Plug/content/Tex" -> "/Plug/Tex"

ParentOf(logical) ==
    CASE logical = "/Game/BP_Foo" -> "/Game"
      [] logical = "/Engine/Tex" -> "/Engine"
      [] logical = "/Plug/Tex" -> "/Plug"

\* the import a negative class reference of the last call's asset names
ClassOf(e) == last.arg[2].imports[-e.class_index].object_name

\* the first record the last populate call appended resolves to the five
\* derived strings and carries the given tag map, encoded as the given
\* bytes, with bundle count 0, no chunk ids and flags 0
C14_FirstRecord(tags, word) ==
    Appended =>
        LET logical == LogicalPath(last.arg[1])
            root == FirstExport(NullOuterPublic)
        IN /\ AnyExport(NullOuterPublic)
           /\ Resolve(reg, FirstNew.object_path) = logical \o "." \o root.object_name
           /\ Resolve(reg, FirstNew.package_path) = ParentOf(logical)
           /\ Resolve(reg, FirstNew.asset_class) = ClassOf(root)
           /\ Resolve(reg, FirstNew.package_name) = logical
           /\ Resolve(reg, FirstNew.asset_name) = root.object_name
           /\ FirstNew.tags = tags
           /\ MapHandle_write(FirstNew.tags) = word
           /\ FirstNew.bundle_count = u32(0)
           /\ FirstNew.chunk_ids = <<>>
           /\ FirstNew.flags = u32(0)

\* C14 (as amended): when populate finds no record with the derived object
\* path, the first record it appends has object_path, package_path,
\* asset_class, package_name and asset_name resolving to
\* "{logical_path}.{asset_name}", the parent of the logical path, the
\* import-resolved class name, the logical path and the root export's
\* object name, a tag map of no pairs at offset 0 whose numberless-keys flag
\* is set (the 64-bit word 0x8000000000000000), bundle count 0, an empty
\* chunk list and flags 0.
C14_AppendedRecord ==
    C14_FirstRecord(MapHandle(TRUE, 0, u32(0)), <<0, 0, 0, 0, 0, 0, 0, 128>>)

\* C14 as claimed: the tag map has its numberless-keys flag clear and
\* encodes to the 64-bit word 0.
C14_AsClaimed ==
    C14_FirstRecord(MapHandle(FALSE, 0, u32(0)), <<0, 0, 0, 0, 0, 0, 0, 0>>)

\* C14 witness: populate appended a record for a plugin path to a registry
\* that already held a record.
C14_Witness ==
    /\ Appended
    /\ Len(pre.asset_data) = 1
    /\ Resolve(reg, FirstNew.object_path) = "/Plug/Tex.Tex"
    /\ Resolve(reg, FirstNew.package_path) = "/Plug"
    /\ Resolve(reg, FirstNew.asset_class) = "Texture2D"
    /\ FirstNew.tags.has_numberless_keys


(***************************************************************************)
(* Properties of the string sections Store::write makes                    *)
(***************************************************************************)
\* the bytes of the ANSI and of the wide payload of the written Store, one
\* entry per string, as they lie before the pairs and MAGIC_END
AnsiPayload == [i \in 1..Len(val.ansi_strings) |-> Len(ansi_write(val.ansi_strings[i]))]
WidePayload == [i \in 1..Len(val.wide_strings) |-> Len(wide_write(val.wide_strings[i]))]

\* where the payloads and the two offset tables start in the written bytes
WideStart == Len(bytes) - 4 - 8 * Len(val.pairs) - Sum(WidePayload) + 1
AnsiStart == WideStart - Sum(AnsiPayload)
WideTable == AnsiStart - 4 * Len(val.wide_strings)
AnsiTable == WideTable - 4 * Len(val.ansi_strings)

\* the two size totals of the header: the eighth and the ninth word after
\* MAGIC_START
AnsiTotal == WordAt(bytes, 4 + 4 * 7 + 1)
WideTotal == WordAt(bytes, 4 + 4 * 8 + 1)

StoreWritten == kind = "Store" /\ pc = "written"

\* the payload sections hold the strings as written, and the ANSI total and
\* offsets count bytes; the wide total and offsets count in the given unit
C15_Sections(unit) ==
    StoreWritten =>
        /\ SubSeq(bytes, AnsiStart, WideStart - 1) = write_array("ansi", val.ansi_strings)
        /\ SubSeq(bytes, WideStart, WideStart + Sum(WidePayload) - 1)
              = write_array("wide", val.wide_strings)
        /\ AnsiTotal = u32(Sum(AnsiPayload))
        /\ \A i \in 1..Len(val.ansi_strings) :
              WordAt(bytes, AnsiTable + 4 * (i - 1)) = u32(Sum(SubSeq(AnsiPayload, 1, i - 1)))
        /\ WideTotal = u32(Sum(WidePayload) \div unit)
        /\ \A i \in 1..Len(val.wide_strings) :
              WordAt(bytes, WideTable + 4 * (i - 1))
                  = u32(Sum(SubSeq(WidePayload, 1, i - 1)) \div unit)

\* C15 (as amended): in the bytes Store::write makes, the ANSI size total
\* is the number of bytes of the ANSI payload and the i-th ANSI offset is
\* the byte offset of the i-th string in it; the wide size total is the
\* number of 16-bit units of the wide payload (half its bytes) and the i-th
\* wide offset is the offset of the i-th string in 16-bit units (half its
\* byte offset).
C15_SizesAndOffsets == C15_Sections(2)

\* C15 as claimed: the wide total and the wide offsets count bytes too.
C15_AsClaimed == C15_Sections(1)

\* C15 witness: a written Store with three ANSI strings, one of them with a
\* two-byte char, and two wide strings, the second at unit offset 3.
C15_Witness ==
    /\ StoreWritten
    /\ Len(val.ansi_strings) = 3 /\ Len(val.wide_strings) = 2
    /\ AnsiTotal = u32(7) /\ WordAt(bytes, AnsiTable + 8) = u32(4)
    /\ WideTotal = u32(4) /\ WordAt(bytes, WideTable + 4) = u32(3)
    /\ Sum(WidePayload) = 8


(***************************************************************************)
(* Properties of populate over sequences of calls                          *)
(***************************************************************************)
\* the errors populate returns
PopulateErrors ==
    { Err("failed to get game path"), Err("no root export"),
      Err("no path parent"), Err("bad import ref") }

\* C16: a populate call that returns an error (the path is under no
\* recognised mount root, there is no root export, the logical path has no
\* parent, or the class reference resolves to no import) leaves the name
\* table, the AssetData list and the rest of the registry as they were
\* before the call.
C16_FailedPopulateUnchanged ==
    (last.op = "populate" /\ last.ret \in PopulateErrors)
        => (reg.names = pre.names /\ reg.asset_data = pre.asset_data /\ reg = pre)

\* C16 witness: on a registry holding a record and names, populate failed
\* on the class reference, the last error return, of an asset whose path
\* and root export are good.
C16_Witness ==
    /\ last.op = "populate" /\ last.ret = Err("bad import ref")
    /\ IsSome(pak_path_to_game_path(last.arg[1]))
    /\ AnyExport(NullOuterPublic)
    /\ Len(pre.asset_data) = 1 /\ Len(pre.names) = 5
    /\ reg = pre


\* the object-path string of the i-th record of registry r; a record whose
\* index lies outside the name table resolves to no string
ObjectPathOf(r, i) ==
    LET index == r.asset_data[i].object_path.index
    IN IF InBounds(index, Len(r.names)) THEN Some(r.names[index.lo + 1]) ELSE None

\* no two records of r resolve to the same object-path string
NoRepeatedObjectPath(r) ==
    \A i, j \in 1..Len(r.asset_data) :
        (i # j /\ IsSome(ObjectPathOf(r, i))) => ObjectPathOf(r, i) # ObjectPathOf(r, j)

\* C17 (as amended): the first record a populate call appends has an object
\* path that no record before it has, and that the second record of the
\* same call does not have; starting from a list without repeated object
\* paths, two records resolve to the same object path only when the later
\* one is the second, Blueprint record of a call (the record with the
\* suffix "_C" stripped, which populate appends without a check).
C17_OnlyBlueprintRecordRepeats ==
    Appended =>
        LET first == Len(pre.asset_data) + 1
            n == Len(reg.asset_data)
        IN /\ \A j \in 1..n : j # first => ObjectPathOf(reg, j) # ObjectPathOf(reg, first)
           /\ NoRepeatedObjectPath(pre) =>
                 \A i, j \in 1..n :
                     (i < j /\ IsSome(ObjectPathOf(reg, i))
                            /\ ObjectPathOf(reg, i) = ObjectPathOf(reg, j))
                         => /\ n = first + 1 /\ j = n
                            /\ EndsWith(Resolve(reg, FirstNew.object_path), "_C")
                            /\ Resolve(reg, FirstNew.object_path)
                                  = Unwrap(ObjectPathOf(reg, j)) \o "_C"

\* C17 as claimed: no two records resolve to the same object-path string.
C17_AsClaimed == NoRepeatedObjectPath(reg)

\* C17 witness: "BP_Foo" was populated, then "BP_Foo_C" under the same
\* path; the third record repeats the object path of the first.
C17_Witness ==
    /\ Appended
    /\ Len(pre.asset_data) = 1 /\ Len(reg.asset_data) = 3
    /\ NoRepeatedObjectPath(pre)
    /\ ObjectPathOf(reg, 1) = Some("/Game/BP_Foo.BP_Foo")
    /\ ObjectPathOf(reg, 2) = Some("/Game/BP_Foo.BP_Foo_C")
    /\ ObjectPathOf(reg, 3) = Some("/Game/BP_Foo.BP_Foo")


(***************************************************************************)
(* Properties of the name table AssetRegistry::read builds                 *)
(***************************************************************************)
\* the name count of a registry stream: the word after the Guid and the
\* version int
FileNameCount == WordAt(bytes, 21).lo

\* the length of the i-th name of the stream (big-endian, after the 36
\* bytes of header and the hashes) and the bytes of that name
FileNameLength(i) ==
    LET at == 36 + 8 * FileNameCount + 2 * i
    IN 256 * bytes[at - 1] + bytes[at]

FileName(i) ==
    LET start == 36 + 10 * FileNameCount
                    + Sum([j \in 1..(i - 1) |-> FileNameLength(j)])
    IN SubSeq(bytes, start + 1, start + FileNameLength(i))

RegistryDecoded ==
    kind = "AssetRegistry" /\ pc \in {"read", "read_corrupted"} /\ out.tag = "Ok"

\* C18 as claimed: whenever AssetRegistry::read succeeds, the decoded name
\* table has name_count entries and its i-th string is the i-th name of the
\* stream, also when the stream holds the same name more than once.
C18_AsClaimed ==
    RegistryDecoded =>
        /\ Len(out.v.names) = FileNameCount
        /\ \A i \in 1..FileNameCount : out.v.names[i] = from_utf8_lossy(FileName(i))


\* the five name fields of an AssetData record
NameFields(a) == {a.object_path, a.package_path, a.asset_class, a.package_name, a.asset_name}

\* every name field of every record of r has an index below the length of
\* the name table
AllInBounds(r) ==
    \A i \in 1..Len(r.asset_data) :
        \A f \in NameFields(r.asset_data[i]) : InBounds(f.index, Len(r.names))

\* C19: a get_name or populate call on a registry in which every AssetData
\* name field has an index below the name-table length leaves a registry in
\* which that is so (hence so does every sequence of such calls from such a
\* registry), and the name fields of every record populate appends have an
\* index below the name-table length and no instance number.
C19_IndicesInBounds ==
    /\ AllInBounds(pre) => AllInBounds(reg)
    /\ Appended =>
          \A i \in (Len(pre.asset_data) + 1)..Len(reg.asset_data) :
              \A f \in NameFields(reg.asset_data[i]) :
                  f.instance = None /\ InBounds(f.index, Len(reg.names))

\* C19 witness: a populate call appended two records, with names that were
\* in the table and names that were not, to a registry that held a record
\* with an instance number, all of its indices in bounds.
C19_Witness ==
    /\ Appended
    /\ AllInBounds(pre) /\ AllInBounds(reg)
    /\ Len(pre.asset_data) = 1 /\ Len(reg.asset_data) = 3
    /\ pre.asset_data[1].asset_name.instance # None
    /\ Len(reg.names) = Len(pre.names) + 8
    /\ SecondNew.object_path.index = u32(Len(pre.names) + 5)

====
